---- MODULE Spec2Model ----
(***************************************************************************)
(* Model of the extraction-and-normalisation pipeline of data_loader.py:   *)
(* parse_pdf -> process_data, with the helpers clean_manufacturer,         *)
(* normalize_manufacturer, clean_car_line, parse_country_percentage,       *)
(* parse_us_canada_percentage and normalize_country.                       *)
(*                                                                         *)
(* Python strings are TLA+ strings, taken apart character by character     *)
(* with Len, SubSeq and \o.  A Python value that may be None, a str or an  *)
(* int is a tagged tuple: None, PyStr(s), PyInt(n).  Cells are ASCII text:  *)
(* the character classes below are the ASCII part of Python's.             *)
(***************************************************************************)
EXTENDS Integers, Sequences, FiniteSets, TLC

VARIABLES
    pc,          \* position of the run: "parse_pdf", "process_data", "return", "done"; "call", "returned" for a single call
    pdf_rows,    \* rows of the extracted table(s), as pdfplumber returns them (cells: None or str)
    year,        \* the report year handed to parse_pdf
    raw_data,    \* parse_pdf's result: the rows process_data iterates over
    idx,         \* process_data: 1-based position of the for loop in raw_data
    processed,   \* process_data: the list of entries appended so far
    taken,       \* process_data: for each row handled, the line at which the loop body ended
    df,          \* the DataFrame process_data returned (None before it returns)
    callee,      \* single call: name of the function called
    arg,         \* single call: its argument
    ctx,         \* single call of normalize_country: its context argument
    ret,         \* single call: its return value (None before it returns)
    prev,        \* second call of normalize_country: (context, return value) of the first
    year_i,      \* main: 1-based position of the for loop in YEAR_URLS
    files,       \* main: the years whose report is a file in the data directory
    failed_downloads, \* main: the list of (year, url) of the reports not retrieved
    outcomes,    \* main: for each year handled, the branch the loop body took
    all_raw_data, \* main: the rows gathered from the reports parsed so far
    csv          \* main: the tables written by df.to_csv, in the order written

\* the variables of main around the call of process_data
mainVars == <<year_i, files, failed_downloads, outcomes, all_raw_data, csv>>

vars == <<pc, pdf_rows, year, raw_data, idx, processed, taken, df, callee, arg, ctx, ret,
          prev, mainVars>>

(***************************************************************************)
(* Python values                                                           *)
(***************************************************************************)
None == <<"None">>
PyStr(s) == <<"str", s>>
PyInt(n) == <<"int", n>>
PyTuple(a, b) == <<"tuple", a, b>>
Fst(t) == t[2]
Snd(t) == t[3]
IsNone(v) == v[1] = "None"
IsStr(v) == v[1] = "str"
IsInt(v) == v[1] = "int"
Val(v) == v[2]

\* bool(v): None, "" and 0 are falsy
Truthy(v) ==
    CASE IsNone(v) -> FALSE
      [] IsStr(v) -> Val(v) # ""
      [] IsInt(v) -> Val(v) # 0

(***************************************************************************)
(* str methods and builtins used by the code                               *)
(***************************************************************************)
Ch(s, i) == SubSeq(s, i, i)
From(s, i) == SubSeq(s, i, Len(s))

UPPERCASE == "ABCDEFGHIJKLMNOPQRSTUVWXYZ"
LOWERCASE == "abcdefghijklmnopqrstuvwxyz"
DIGITS == "0123456789"

Pos(c, s) == CHOOSE i \in 1..Len(s) : Ch(s, i) = c
CharSet(s) == {Ch(s, i) : i \in 1..Len(s)}
UpperSet == CharSet(UPPERCASE)
LowerSet == CharSet(LOWERCASE)
DigitSet == CharSet(DIGITS)
ToUpper == [c \in LowerSet |-> Ch(UPPERCASE, Pos(c, LOWERCASE))]
ToLower == [c \in UpperSet |-> Ch(LOWERCASE, Pos(c, UPPERCASE))]
DigitVal == [c \in DigitSet |-> Pos(c, DIGITS) - 1]

\* whitespace of str.strip(), str.split() and the regex class \s
Whitespace == {" ", "\t", "\n", "\r", "\f"}
IsSpace(c) == c \in Whitespace
IsUpper(c) == c \in UpperSet
IsLower(c) == c \in LowerSet
IsAlpha(c) == IsUpper(c) \/ IsLower(c)
IsDigit(c) == c \in DigitSet

\* length of the longest prefix of s whose characters all lie in the class cls
RECURSIVE Run(_, _)
Run(s, cls) ==
    IF Len(s) > 0 /\ Ch(s, 1) \in cls THEN 1 + Run(From(s, 2), cls) ELSE 0

AlphaSet == UpperSet \cup LowerSet

RECURSIVE rstrip(_)
rstrip(s) ==
    IF Len(s) > 0 /\ IsSpace(Ch(s, Len(s))) THEN rstrip(SubSeq(s, 1, Len(s) - 1)) ELSE s

lstrip(s) == From(s, Run(s, Whitespace) + 1)

\* s.strip()
strip(s) == rstrip(lstrip(s))

\* s.split('\n')[0]
first_line(s) ==
    IF \E i \in 1..Len(s) : Ch(s, i) = "\n"
    THEN LET i == CHOOSE k \in 1..Len(s) :
                    Ch(s, k) = "\n" /\ \A j \in 1..(k - 1) : Ch(s, j) # "\n"
         IN  SubSeq(s, 1, i - 1)
    ELSE s

\* s.split(): the whitespace-delimited words of s
RECURSIVE split(_)
split(s) ==
    LET t == lstrip(s)
    IN  IF t = "" THEN <<>>
        ELSE LET w == CHOOSE k \in 1..Len(t) :
                          /\ \A j \in 1..k : ~IsSpace(Ch(t, j))
                          /\ (k = Len(t) \/ IsSpace(Ch(t, k + 1)))
             IN  <<SubSeq(t, 1, w)>> \o split(From(t, w + 1))

\* s.upper()
RECURSIVE upper(_)
upper(s) ==
    IF s = "" THEN ""
    ELSE (IF IsLower(Ch(s, 1)) THEN ToUpper[Ch(s, 1)] ELSE Ch(s, 1)) \o upper(From(s, 2))

\* s.title(): a letter is upper-cased when the character before it is not a
\* letter, and lower-cased otherwise
RECURSIVE title_from(_, _)
title_from(s, prev_cased) ==
    IF s = "" THEN ""
    ELSE LET c == Ch(s, 1)
             d == IF ~IsAlpha(c) THEN c
                  ELSE IF prev_cased
                       THEN (IF IsUpper(c) THEN ToLower[c] ELSE c)
                       ELSE (IF IsLower(c) THEN ToUpper[c] ELSE c)
         IN  d \o title_from(From(s, 2), IsAlpha(c))

title(s) == title_from(s, FALSE)

\* s.replace(a, b) for single characters a, b
RECURSIVE replace(_, _, _)
replace(s, a, b) ==
    IF s = "" THEN ""
    ELSE (IF Ch(s, 1) = a THEN b ELSE Ch(s, 1)) \o replace(From(s, 2), a, b)

\* s.startswith(p)
startswith(s, p) == Len(p) <= Len(s) /\ SubSeq(s, 1, Len(p)) = p

\* sub in s
contains(s, sub) ==
    \E i \in 0..(Len(s) - Len(sub)) : SubSeq(s, i + 1, i + Len(sub)) = sub

\* ' '.join(ws)
RECURSIVE join(_)
join(ws) ==
    IF Len(ws) = 0 THEN ""
    ELSE IF Len(ws) = 1 THEN ws[1]
    ELSE ws[1] \o " " \o join(Tail(ws))

\* int(s) for a string of decimal digits
RECURSIVE int(_)
int(s) ==
    IF s = "" THEN 0 ELSE 10 * int(SubSeq(s, 1, Len(s) - 1)) + DigitVal[Ch(s, Len(s))]

\* str(n) for an integer n >= 0
RECURSIVE str_int(_)
str_int(n) ==
    IF n < 10 THEN Ch(DIGITS, n + 1) ELSE str_int(n \div 10) \o Ch(DIGITS, (n % 10) + 1)

\* str(v)
str(v) ==
    CASE IsNone(v) -> "None"
      [] IsStr(v) -> Val(v)
      [] IsInt(v) -> str_int(Val(v))

(***************************************************************************)
(* Tables of data_loader.py                                                *)
(***************************************************************************)
\* COUNTRY_MAPPING: <<key, country>> in the order of the dict literal
COUNTRY_MAPPING == <<
    <<"US", "United States">>, <<"USA", "United States">>, <<"U.S.", "United States">>,
    <<"M", "Mexico">>, <<"MEX", "Mexico">>, <<"MX", "Mexico">>,
    <<"CN", "Canada">>, <<"CAN", "Canada">>, <<"CA", "Canada">>,
    <<"J", "Japan">>, <<"JPN", "Japan">>, <<"JP", "Japan">>,
    <<"G", "Germany">>, <<"GER", "Germany">>, <<"GERMANY", "Germany">>,
    <<"DE", "Denmark">>, <<"K", "South Korea">>, <<"KOR", "South Korea">>,
    <<"KR", "South Korea">>, <<"KOREA", "South Korea">>, <<"UK", "United Kingdom">>,
    <<"GB", "United Kingdom">>, <<"I", "Italy">>, <<"ITA", "Italy">>,
    <<"IT", "Italy">>, <<"F", "France">>, <<"FRA", "France">>,
    <<"FR", "France">>, <<"SW", "Sweden">>, <<"SWE", "Sweden">>,
    <<"SE", "Sweden">>, <<"H", "Hungary">>, <<"HUN", "Hungary">>,
    <<"HU", "Hungary">>, <<"AT", "Austria">>, <<"AUT", "Austria">>,
    <<"A", "Austria">>, <<"BE", "Belgium">>, <<"BEL", "Belgium">>,
    <<"CH", "China">>, <<"CHN", "China">>, <<"CZ", "Czech Republic">>,
    <<"CZE", "Czech Republic">>, <<"FN", "Finland">>, <<"FIN", "Finland">>,
    <<"FI", "Finland">>, <<"SP", "Spain">>, <<"ESP", "Spain">>,
    <<"SL", "Slovakia">>, <<"SVK", "Slovakia">>, <<"SK", "Slovakia">>,
    <<"T", "Turkey">>, <<"TUR", "Turkey">>, <<"TR", "Turkey">>,
    <<"BR", "Brazil">>, <<"BRA", "Brazil">>, <<"SA", "South Africa">>,
    <<"RSA", "South Africa">>, <<"ZA", "South Africa">>, <<"AF", "South Africa">>,
    <<"AU", "Australia">>, <<"AUS", "Australia">>, <<"PL", "Poland">>,
    <<"POL", "Poland">>, <<"TH", "Thailand">>, <<"THA", "Thailand">>,
    <<"ID", "Indonesia">>, <<"IDN", "Indonesia">>, <<"IN", "India">>,
    <<"IND", "India">>, <<"P", "Philippines">>, <<"PO", "Portugal">>,
    <<"PRT", "Portugal">>, <<"PT", "Portugal">>, <<"N", "Netherlands">>,
    <<"NLD", "Netherlands">>, <<"NL", "Netherlands">>, <<"R", "Romania">>,
    <<"RU", "Russia">>, <<"RUS", "Russia">>, <<"SI", "Singapore">>,
    <<"CU", "Cuba">>, <<"OT", "Other">>, <<"MYS", "Malaysia">>,
    <<"MY", "Malaysia">>, <<"ARG", "Argentina">>, <<"AR", "Argentina">>,
    <<"TW", "Taiwan">>, <<"TWN", "Taiwan">>, <<"VNM", "Vietnam">>,
    <<"VN", "Vietnam">>, <<"SERBIA", "Serbia">>
>>

COUNTRY_KEYS == {COUNTRY_MAPPING[i][1] : i \in 1..Len(COUNTRY_MAPPING)}

\* COUNTRY_MAPPING[k] for a key k
COUNTRY_OF(k) ==
    COUNTRY_MAPPING[CHOOSE i \in 1..Len(COUNTRY_MAPPING) : COUNTRY_MAPPING[i][1] = k][2]

US_STATES == {
    "AL", "AK", "AZ", "AR", "CA", "CO", "CT", "DE", "FL", "GA", "HI", "ID",
    "IL", "IN", "IA", "KS", "KY", "LA", "ME", "MD", "MA", "MI", "MN", "MS",
    "MO", "MT", "NE", "NV", "NH", "NJ", "NM", "NY", "NC", "ND", "OH", "OK",
    "OR", "PA", "RI", "SC", "SD", "TN", "TX", "UT", "VT", "VA", "WA", "WV",
    "WI", "WY", "DC"}

CA_PROVINCES == {"ON", "QC", "BC", "AB", "MB", "SK", "NS", "NB", "NL", "PE", "YT", "NT", "NU"}

GERMAN_CITIES == {
    "LEIPZIG", "MUNICH", "BERLIN", "HAMBURG", "STUTTGART", "COLOGNE",
    "FRANKFURT", "DUSSELDORF", "BREMEN", "HANNOVER", "WOLFSBURG",
    "INGOLSTADT", "REGENSBURG", "RUSSELSHEIM", "ZWICKAU"}

TWO_WORD_COUNTRIES ==
    {"SOUTH KOREA", "SOUTH AFRICA", "UNITED STATES", "UNITED KINGDOM", "CZECH REPUBLIC"}

known_countries == <<
    "UNITED STATES", "MEXICO", "CANADA", "JAPAN", "GERMANY", "SOUTH KOREA",
    "UNITED KINGDOM", "GREAT BRITAIN", "ITALY", "FRANCE", "SWEDEN", "HUNGARY",
    "AUSTRIA", "BELGIUM", "CHINA", "CZECH REPUBLIC", "FINLAND", "SPAIN",
    "SLOVAKIA", "TURKEY", "BRAZIL", "SOUTH AFRICA", "AUSTRALIA", "POLAND",
    "THAILAND", "INDONESIA", "MALAYSIA", "ARGENTINA", "TAIWAN", "VIETNAM",
    "INDIA", "PORTUGAL", "NETHERLANDS", "RUSSIA", "SERBIA", "DENMARK",
    "PHILIPPINES", "ROMANIA", "SINGAPORE", "CUBA">>

\* MANUFACTURER_NORMALIZATION: <<pattern, normalized>> in the order of the dict literal
MANUFACTURER_NORMALIZATION == <<
    <<"GM LLC", "General Motors">>, <<"General Motors LLC", "General Motors">>,
    <<"FCA", "Stellantis">>, <<"Fiat Chrysler", "Stellantis">>,
    <<"Honda Motor Co.,", "Honda">>, <<"Honda Motor Co., Ltd.", "Honda">>,
    <<"Hyundai Motor", "Hyundai">>, <<"Hyundai Motor Company", "Hyundai">>,
    <<"Jaguar Land Rover", "Jaguar Land Rover">>, <<"JaguaLr iLmaintedd Rover", "Jaguar Land Rover">>,
    <<"Jaguar Land Rover Limited", "Jaguar Land Rover">>, <<"Mazda Motor", "Mazda">>,
    <<"Mazda Motor Corporation", "Mazda">>, <<"Mitsubishi Motors", "Mitsubishi">>,
    <<"Mitsubishi Motors Corporation", "Mitsubishi">>, <<"Nissan North", "Nissan">>,
    <<"Nissan North America,", "Nissan">>, <<"Nissan North America, Inc", "Nissan">>,
    <<"Bugatti Automobiles", "Bugatti">>, <<"Bugatti Automobiles S.A.S.", "Bugatti">>,
    <<"Rolls-Royce Motor", "Rolls-Royce">>, <<"Tesla Inc.", "Tesla">>,
    <<"Lotus Cars Ltd.", "Lotus">>, <<"Lucid USA, Inc.", "Lucid">>,
    <<"Kia Motors", "Kia">>
>>

INVALID_MANUFACTURERS == {"Limited", "XC90 Aut (8vxl) FWD + ERAD (T8 AWD)", ""}

\* the codes c of LEGEND_PATTERNS, each pattern being ^c\s
LEGEND_PATTERNS == <<
    "AU", "AT", "BE", "BR", "CH", "CU", "CN",
    "CZ", "DE", "F", "FN", "G", "H", "I",
    "ID", "IN", "J", "K", "M", "N", "OT",
    "P", "PL", "PO", "R", "RU", "SA", "SI",
    "SL", "SP", "SW", "T", "TH", "UK", "US">>

\* minimum number of cells of a row (the year included) for process_data to look at it
MIN_ROW_LEN == 8

(***************************************************************************)
(* normalize_country                                                       *)
(***************************************************************************)
\* index of the first character of s equal to c (s contains c)
IndexOf(s, c) ==
    CHOOSE k \in 1..Len(s) : Ch(s, k) = c /\ \A j \in 1..(k - 1) : Ch(s, j) # c

\* re.sub(r'\s*\([^)]*\)', '', s)
RECURSIVE sub_parenthetical(_)
sub_parenthetical(s) ==
    IF s = "" THEN ""
    ELSE LET rest == From(s, Run(s, Whitespace) + 1)
         IN  IF startswith(rest, "(") /\ contains(rest, ")")
             THEN sub_parenthetical(From(rest, IndexOf(rest, ")") + 1))
             ELSE Ch(s, 1) \o sub_parenthetical(From(s, 2))

\* the loop over words: the country of the first word that is a US state, a
\* Canadian province or a German city; None when there is no such word
RECURSIVE region_of_words(_)
region_of_words(words) ==
    IF Len(words) = 0 THEN None
    ELSE IF Head(words) \in US_STATES THEN PyStr("United States")
    ELSE IF Head(words) \in CA_PROVINCES THEN PyStr("Canada")
    ELSE IF Head(words) \in GERMAN_CITIES THEN PyStr("Germany")
    ELSE region_of_words(Tail(words))

\* a loop over known_countries that finds no name
known_country_in_none(code_upper, i) == None

\* the loop over known_countries: the first name contained in code_upper
RECURSIVE known_country_in(_, _)
known_country_in(code_upper, i) ==
    IF i > Len(known_countries) THEN None
    ELSE IF contains(code_upper, known_countries[i]) THEN PyStr(title(known_countries[i]))
    ELSE known_country_in(code_upper, i + 1)

\* a fallback that returns the cleaned code as it is, whatever its length
country_fallback_unchanged(code) == PyStr(code)

\* the fallback: the cleaned code, title-cased when longer than 3 characters
country_fallback(code) == IF Len(code) > 3 THEN PyStr(title(code)) ELSE PyStr(code)

\* normalize_country with the return statement it leaves by: at names the
\* line of the return, value is what is returned
normalize_country_exit(code_arg, context) ==
    IF ~IsStr(code_arg) THEN [at |-> "return@273", value |-> None]
    ELSE LET original == strip(Val(code_arg)) IN
    IF original = "" THEN [at |-> "return@277", value |-> None]
    ELSE LET code0 == strip(sub_parenthetical(original))
             code == IF contains(code0, "\n") THEN strip(first_line(code0)) ELSE code0
             code_upper == upper(code)
             words == split(replace(code_upper, ",", " "))
             region == region_of_words(words)
             last_word == words[Len(words)]
             last_two == join(SubSeq(words, Len(words) - 1, Len(words)))
             known == known_country_in(code_upper, 1)
         IN  IF ~IsNone(region) THEN [at |-> "return@309-313", value |-> region]
             ELSE IF startswith(code_upper, "US,") \/ startswith(code_upper, "US ")
                  THEN [at |-> "return@317", value |-> PyStr("United States")]
             ELSE IF startswith(code_upper, "M,") \/ startswith(code_upper, "M ")
                  THEN [at |-> "return@319", value |-> PyStr("Mexico")]
             ELSE IF startswith(code_upper, "K,")
                  THEN [at |-> "return@321", value |-> PyStr("South Korea")]
             ELSE IF startswith(code_upper, "G,")
                  THEN [at |-> "return@323", value |-> PyStr("Germany")]
             ELSE IF Len(words) >= 2 /\ last_word \in COUNTRY_KEYS
                  THEN [at |-> "return@331", value |-> PyStr(COUNTRY_OF(last_word))]
             ELSE IF Len(words) >= 2 /\ last_two \in TWO_WORD_COUNTRIES
                  THEN [at |-> "return@336", value |-> PyStr(title(last_two))]
             ELSE IF code_upper \in COUNTRY_KEYS
                  THEN [at |-> "return@340", value |-> PyStr(COUNTRY_OF(code_upper))]
             ELSE IF ~IsNone(known) THEN [at |-> "return@354", value |-> known]
             ELSE [at |-> IF Len(code) > 3 THEN "return@358" ELSE "return@360",
                   value |-> country_fallback(code)]

\* a normalize_country that reads the code T as Thailand for one
\* manufacturer and as in COUNTRY_MAPPING for the others
normalize_country_by_context(code_arg, context) ==
    IF code_arg = PyStr("T") /\ context = "Toyota" THEN PyStr("Thailand")
    ELSE normalize_country_exit(code_arg, context).value

normalize_country(code_arg, context) == normalize_country_exit(code_arg, context).value

(***************************************************************************)
(* clean_manufacturer, normalize_manufacturer, clean_car_line              *)
(***************************************************************************)
\* re.match(r'^[A-Z]{1,2}\s+[A-Z][a-z]+$', s)
match_legend_entry(s) ==
    LET u == Run(s, UpperSet)
        r1 == From(s, u + 1)
        w == Run(r1, Whitespace)
        r2 == From(r1, w + 1)
        l == Run(From(r2, 2), LowerSet)
    IN  /\ u \in {1, 2}
        /\ w >= 1
        /\ Len(r2) >= 2
        /\ IsUpper(Ch(r2, 1))
        /\ l >= 1
        /\ l = Len(r2) - 1

\* re.match(r'^[A-Z0-9]+\s+(Aut|AWD|FWD|RWD)', s)
match_model_pattern(s) ==
    LET a == Run(s, UpperSet \cup DigitSet)
        r1 == From(s, a + 1)
        w == Run(r1, Whitespace)
        r2 == From(r1, w + 1)
    IN  /\ a >= 1
        /\ w >= 1
        /\ \E t \in {"Aut", "AWD", "FWD", "RWD"} : startswith(r2, t)

\* re.search(r'\d+%|MPV|PC\s|Truck', s)
search_data_pattern(s) ==
    \/ \E i \in 1..(Len(s) - 1) : IsDigit(Ch(s, i)) /\ Ch(s, i + 1) = "%"
    \/ contains(s, "MPV")
    \/ \E i \in 1..(Len(s) - 2) : SubSeq(s, i, i + 1) = "PC" /\ IsSpace(Ch(s, i + 2))
    \/ contains(s, "Truck")

\* list(MANUFACTURER_NORMALIZATION.keys()) + [...]
known_manufacturers ==
    [i \in 1..Len(MANUFACTURER_NORMALIZATION) |-> MANUFACTURER_NORMALIZATION[i][1]]
    \o <<"Audi", "BMW AG", "Bentley", "Ford Motor Company", "Porsche AG",
         "Subaru", "Toyota", "Volkswagen", "Volvo", "Mercedes-Benz USA",
         "Lamborghini", "Polestar">>

\* the loop over known_manufacturers: the first one first_line starts with
RECURSIVE known_prefix(_, _)
known_prefix(s, i) ==
    IF i > Len(known_manufacturers) THEN None
    ELSE IF startswith(s, known_manufacturers[i]) THEN PyStr(known_manufacturers[i])
    ELSE known_prefix(s, i + 1)

\* the branch taken when the cell carries data patterns: a known manufacturer
\* at its start, else its first word
recover_manufacturer(s) ==
    LET mfg == known_prefix(s, 1)
        words == split(s)
    IN  IF ~IsNone(mfg) THEN mfg
        ELSE IF Len(words) > 0 THEN PyStr(words[1])
        ELSE None

clean_manufacturer(raw_manufacturer) ==
    IF ~Truthy(raw_manufacturer) \/ ~IsStr(raw_manufacturer) THEN None
    ELSE LET line == strip(first_line(Val(raw_manufacturer)))
         IN  IF match_legend_entry(line) THEN None
             ELSE IF line \in INVALID_MANUFACTURERS THEN None
             ELSE IF match_model_pattern(line) THEN None
             ELSE IF search_data_pattern(line) THEN recover_manufacturer(line)
             ELSE PyStr(line)

\* the loop over MANUFACTURER_NORMALIZATION.items() with the test for equality
\* only: the first pattern the name equals
RECURSIVE normalization_of_equal(_, _)
normalization_of_equal(m, i) ==
    IF i > Len(MANUFACTURER_NORMALIZATION) THEN None
    ELSE IF m = MANUFACTURER_NORMALIZATION[i][1] THEN PyStr(MANUFACTURER_NORMALIZATION[i][2])
    ELSE normalization_of_equal(m, i + 1)

\* the loop over MANUFACTURER_NORMALIZATION.items(): the first pattern the
\* name starts with or equals
RECURSIVE normalization_of(_, _)
normalization_of(m, i) ==
    IF i > Len(MANUFACTURER_NORMALIZATION) THEN None
    ELSE IF startswith(m, MANUFACTURER_NORMALIZATION[i][1]) \/ m = MANUFACTURER_NORMALIZATION[i][1]
         THEN PyStr(MANUFACTURER_NORMALIZATION[i][2])
    ELSE normalization_of(m, i + 1)

normalize_manufacturer(manufacturer) ==
    IF ~Truthy(manufacturer) THEN None
    ELSE LET m == Val(manufacturer)
             n == normalization_of(m, 1)
         IN  IF ~IsNone(n) THEN n
             ELSE IF startswith(m, "Subaru Subaru") THEN PyStr("Subaru")
             ELSE IF startswith(m, "Tesla Inc. Tesla") THEN PyStr("Tesla")
             ELSE manufacturer

clean_car_line(raw_car_line) ==
    IF ~Truthy(raw_car_line) \/ ~IsStr(raw_car_line) THEN None
    ELSE LET line == strip(first_line(Val(raw_car_line)))
         IN  IF line = "" THEN None ELSE PyStr(line)

(***************************************************************************)
(* parse_country_percentage, parse_us_canada_percentage                    *)
(***************************************************************************)
\* the pattern with the percent sign made optional: (\d+)\s*%?\s*([A-Za-z]+)?
match_country_percentage_optional_sign(s) ==
    LET d == Run(s, DigitSet)
        r1 == From(s, d + 1)
        r2 == From(r1, Run(r1, Whitespace) + 1)
        r3 == IF startswith(r2, "%") THEN From(r2, 2) ELSE r2
        r4 == From(r3, Run(r3, Whitespace) + 1)
        a == Run(r4, AlphaSet)
    IN  IF d >= 1
        THEN <<PyStr(SubSeq(s, 1, d)), IF a >= 1 THEN PyStr(SubSeq(r4, 1, a)) ELSE None>>
        ELSE None

\* re.match(r'(\d+)\s*%\s*([A-Za-z]+)?', s): <<group(1), group(2)>>, or None
\* when there is no match; group(2) is None when the optional group is absent
match_country_percentage(s) ==
    LET d == Run(s, DigitSet)
        r1 == From(s, d + 1)
        r2 == From(r1, Run(r1, Whitespace) + 1)
        r3 == From(r2, 2)
        r4 == From(r3, Run(r3, Whitespace) + 1)
        a == Run(r4, AlphaSet)
    IN  IF d >= 1 /\ startswith(r2, "%")
        THEN <<PyStr(SubSeq(s, 1, d)), IF a >= 1 THEN PyStr(SubSeq(r4, 1, a)) ELSE None>>
        ELSE None

\* parse_country_percentage without the .upper() of line 547
parse_country_percentage_as_written(value) ==
    IF ~Truthy(value) \/ ~IsStr(value) THEN PyTuple(None, None)
    ELSE LET v1 == strip(Val(value)) IN
    IF v1 = "" THEN PyTuple(None, None)
    ELSE LET v2 == strip(first_line(v1))
             match == match_country_percentage(v2)
         IN  IF ~IsNone(match)
             THEN PyTuple(PyInt(int(Val(match[1]))), match[2])
             ELSE PyTuple(None, None)

\* returns the tuple (percentage, country_code)
parse_country_percentage(value) ==
    IF ~Truthy(value) \/ ~IsStr(value) THEN PyTuple(None, None)
    ELSE LET v1 == strip(Val(value)) IN
    IF v1 = "" THEN PyTuple(None, None)
    ELSE LET v2 == strip(first_line(v1))
             match == match_country_percentage(v2)
         IN  IF ~IsNone(match)
             THEN PyTuple(PyInt(int(Val(match[1]))),
                          IF ~IsNone(match[2]) THEN PyStr(upper(Val(match[2]))) ELSE None)
             ELSE PyTuple(None, None)

\* re.match(r'(\d+)\s*%?', s): group(1), or None when there is no match
match_percentage(s) ==
    LET d == Run(s, DigitSet)
    IN  IF d >= 1 THEN PyStr(SubSeq(s, 1, d)) ELSE None

\* parse_us_canada_percentage returning None where the code returns 0
parse_us_canada_percentage_or_none(value) ==
    IF ~Truthy(value) \/ ~IsStr(value) THEN None
    ELSE LET match == match_percentage(strip(Val(value)))
         IN  IF ~IsNone(match) THEN PyInt(int(Val(match))) ELSE None

parse_us_canada_percentage(value) ==
    IF ~Truthy(value) \/ ~IsStr(value) THEN PyInt(0)
    ELSE LET match == match_percentage(strip(Val(value)))
         IN  IF ~IsNone(match) THEN PyInt(int(Val(match))) ELSE PyInt(0)

(***************************************************************************)
(* process_data: the body of the loop, for one row                         *)
(***************************************************************************)
\* the loop over LEGEND_PATTERNS with the one-letter codes left out of the list
is_legend_two_letter(s) ==
    \E i \in 1..Len(LEGEND_PATTERNS) :
        LET c == LEGEND_PATTERNS[i]
        IN  Len(c) = 2 /\ startswith(s, c) /\ Len(s) > Len(c) /\ IsSpace(Ch(s, Len(c) + 1))

\* the loop over LEGEND_PATTERNS: some ^code\s matches s
is_legend(s) ==
    \E i \in 1..Len(LEGEND_PATTERNS) :
        LET c == LEGEND_PATTERNS[i]
        IN  startswith(s, c) /\ Len(s) > Len(c) /\ IsSpace(Ch(s, Len(c) + 1))

\* repr(s) of a str: quoted, with backslash escapes
RECURSIVE repr_chars(_, _)
repr_chars(s, quote) ==
    IF s = "" THEN ""
    ELSE LET c == Ch(s, 1)
             e == CASE c = "\\" -> "\\\\"
                    [] c = "\n" -> "\\n"
                    [] c = "\t" -> "\\t"
                    [] c = "\r" -> "\\r"
                    [] c = "\f" -> "\\x0c"
                    [] c = quote -> "\\" \o quote
                    [] OTHER -> c
         IN  e \o repr_chars(From(s, 2), quote)

repr(v) ==
    CASE IsNone(v) -> "None"
      [] IsInt(v) -> str_int(Val(v))
      [] IsStr(v) ->
           LET quote == IF contains(Val(v), "'") /\ ~contains(Val(v), "\"")
                        THEN "\"" ELSE "'"
           IN  quote \o repr_chars(Val(v), quote) \o quote

\* str(row) of a list
RECURSIVE repr_items(_)
repr_items(row) ==
    IF Len(row) = 0 THEN ""
    ELSE IF Len(row) = 1 THEN repr(row[1])
    ELSE repr(row[1]) \o ", " \o repr_items(Tail(row))

str_list(row) == "[" \o repr_items(row) \o "]"

\* x if x else d
or_else(x, d) == IF Truthy(x) THEN x ELSE d

\* row[k] for a Python index k >= 0
At(row, k) == row[k + 1]

\* row[-k] counted one cell too far from the end
FromEnd_off_by_one(row, k) == row[Len(row) - k]

\* row[-k] for k >= 1
FromEnd(row, k) == row[Len(row) - k + 1]

\* the lines at which the body of the loop ends
CONTINUE_SHORT == "continue@595"
CONTINUE_LEGEND == "continue@609"
CONTINUE_MANUFACTURER == "continue@613"
APPEND == "append@667"

\* the entry built for a row that reaches line 653
entry_of(row, manufacturer0) ==
    LET manufacturer == normalize_manufacturer(manufacturer0)
        raw_car_line == IF Len(row) > 2 THEN At(row, 2) ELSE At(row, 1)
        car_line0 == clean_car_line(raw_car_line)
        car_line == IF ~Truthy(car_line0)
                    THEN (IF Len(row) > 1 THEN At(row, 1) ELSE PyStr(""))
                    ELSE car_line0
        percent_content_raw == IF Len(row) > 4 THEN At(row, 4) ELSE PyStr("0")
        percent_us_canada == parse_us_canada_percentage(percent_content_raw)
        country1_raw == IF Len(row) > 5 THEN At(row, 5) ELSE PyStr("")
        country2_raw == IF Len(row) > 6 THEN At(row, 6) ELSE PyStr("")
        parsed1 == parse_country_percentage(country1_raw)
        parsed2 == parse_country_percentage(country2_raw)
        pct1 == Fst(parsed1)
        code1 == Snd(parsed1)
        pct2 == Fst(parsed2)
        code2 == Snd(parsed2)
        country1_name == IF Truthy(code1) THEN normalize_country(code1, manufacturer) ELSE None
        country2_name == IF Truthy(code2) THEN normalize_country(code2, manufacturer) ELSE None
        engine == IF Len(row) > 7 THEN At(row, 7) ELSE PyStr("")
        trans == IF Len(row) > 9 THEN At(row, 9) ELSE PyStr("")
        assembly == IF Len(row) > 3 THEN FromEnd(row, 3) ELSE PyStr("")
        engine_norm == normalize_country(engine, manufacturer)
        trans_norm == normalize_country(trans, manufacturer)
        assembly_norm == normalize_country(assembly, manufacturer)
    IN  [Year |-> FromEnd(row, 1),
         Manufacturer |-> manufacturer,
         Car_Line |-> car_line,
         Pct_US_Canada |-> percent_us_canada,
         Primary_Country |-> or_else(country1_name, PyStr("")),
         Primary_Pct |-> or_else(pct1, PyInt(0)),
         Secondary_Country |-> or_else(country2_name, PyStr("")),
         Secondary_Pct |-> or_else(pct2, PyInt(0)),
         Engine_Source |-> or_else(engine_norm, engine),
         Transmission_Source |-> or_else(trans_norm, trans),
         Assembly_Country |-> or_else(assembly_norm, assembly),
         Raw |-> PyStr(str_list(row))]

\* one pass through the body of the loop: where it ends, and the entries it appends
\* line 594 with the bound mistyped: len(row) < 2
is_short_of_two(row) == Len(row) < 2

\* line 594: the row has too few cells
is_short(row) == Len(row) < MIN_ROW_LEN

\* the check of line 612 left out
not_manufacturer_unchecked(manufacturer) == FALSE

\* line 612: not manufacturer
not_manufacturer(manufacturer) == ~Truthy(manufacturer)

process_row(row) ==
    IF is_short(row) THEN [at |-> CONTINUE_SHORT, entries |-> <<>>]
    ELSE IF is_legend(str(At(row, 0))) THEN [at |-> CONTINUE_LEGEND, entries |-> <<>>]
    ELSE LET manufacturer == clean_manufacturer(At(row, 0))
         IN  IF not_manufacturer(manufacturer)
             THEN [at |-> CONTINUE_MANUFACTURER, entries |-> <<>>]
             ELSE [at |-> APPEND, entries |-> <<entry_of(row, manufacturer)>>]

(***************************************************************************)
(* parse_pdf                                                               *)
(***************************************************************************)
\* [cell.strip() if cell else "" for cell in row]
cleaned(row) ==
    [i \in 1..Len(row) |-> IF Truthy(row[i]) THEN PyStr(strip(Val(row[i]))) ELSE PyStr("")]

\* the two skip conditions of the loop over the rows of a table
is_skipped(cleaned_row) ==
    \/ \A i \in 1..Len(cleaned_row) : ~Truthy(cleaned_row[i])
    \/ contains(Val(cleaned_row[1]), "Manufacturer")
    \/ contains(Val(cleaned_row[1]), "Car Line")
    \/ ~Truthy(cleaned_row[1])

\* the list data built from the rows of the tables of a report
RECURSIVE parse_pdf(_, _)
parse_pdf(rows, y) ==
    IF Len(rows) = 0 THEN <<>>
    ELSE LET cleaned_row == cleaned(Head(rows))
         IN  (IF is_skipped(cleaned_row) THEN <<>> ELSE <<Append(cleaned_row, PyInt(y))>>)
             \o parse_pdf(Tail(rows), y)

(***************************************************************************)
(* Inputs                                                                  *)
(***************************************************************************)
\* most rows of a table in a run with several rows
MaxRows == 3
\* most characters of a generated cell
MaxCellLen == 3

Cells(row) == [i \in 1..Len(row) |-> IF row[i] = "<None>" THEN None ELSE PyStr(row[i])]

\* a typical data row as pdfplumber returns it (13 cells; parse_pdf appends the year)
BASE_ROW == Cells(<<"Toyota", "Corolla", "Corolla", "PC", "75%", "15%G", "10%J",
                    "G", "", "J", "", "United States", "">>)

ManufacturerCells == {
    "Limited", "G Germany", "AU Australia", "Hyundai Motor Company", "X5 AWD",
    "BMW AG X5 MPV 50%", "Acme Truck", "Subaru Subaru Outback", "Tesla Inc.",
    "Ford\nMotor", "Manufacturer", "T Rex", "PC 5%", "<None>", "  "}
CarLineCells == {"", "<None>", "Camry\nHybrid", "\nCamry", " Sienna "}
PercentCells == {"150%", "", "abc", "7", "<None>", "0%", "100 %", "55\n%", "%75"}
CountryPercentCells == {
    "15%g", "15G", "15", "200%G", "% G", "26% H", "15%", "<None>", "0%G",
    "40 % Mex", "30%G\n20%J", "", "5%IN", "15%ZZ"}
SourceCells == {
    "US (2.0L)", "", "<None>", "IN", "Cassino Italy", "Detroit MI USA", "xx",
    "Leipzig", "(AWD)", "Korea", "germany", "M, US", "Graz Austria", "South Korea", "Narnia",
    "narnia", "zz (x)"}

With(row, k, cells) == {[row EXCEPT ![k] = c] : c \in {Cells(<<x>>)[1] : x \in cells}}

\* rows with fewer cells than process_data needs, legend and header rows
SpecialRows == {
    Cells(<<"G", "Germany">>),
    Cells(<<"", "", "", "">>),
    Cells(<<"G Germany", "x">>),
    <<>>,
    SubSeq(BASE_ROW, 1, 6),
    SubSeq(BASE_ROW, 1, 7),
    [[BASE_ROW EXCEPT ![2] = PyStr("")] EXCEPT ![3] = PyStr("")],
    [[BASE_ROW EXCEPT ![2] = PyStr("  ")] EXCEPT ![3] = PyStr("\nCamry")],
    [[BASE_ROW EXCEPT ![1] = PyStr("Car Line")] EXCEPT ![2] = PyStr("Model")],
    [i \in 1..13 |-> PyStr("")],
    [i \in 1..13 |-> IF i = 1 THEN PyStr("US Steel") ELSE PyStr("")],
    [i \in 1..13 |-> IF i = 1 THEN PyStr("M\tMexico") ELSE None],
    [i \in 1..7 |-> IF i = 1 THEN PyStr("SW Sweden 50%") ELSE PyStr("x")],
    [BASE_ROW EXCEPT ![1] = PyStr("")],
    [BASE_ROW EXCEPT ![1] = PyStr(" G Germany ")]}

RowPool ==
    {BASE_ROW}
    \cup With(BASE_ROW, 1, ManufacturerCells)
    \cup With(BASE_ROW, 2, CarLineCells)
    \cup With(BASE_ROW, 3, CarLineCells)
    \cup With(BASE_ROW, 5, PercentCells)
    \cup With(BASE_ROW, 6, CountryPercentCells)
    \cup With(BASE_ROW, 7, CountryPercentCells)
    \cup With(BASE_ROW, 8, SourceCells)
    \cup With(BASE_ROW, 10, SourceCells)
    \cup With(BASE_ROW, 12, SourceCells)
    \cup SpecialRows

\* the rows that runs with several rows are built from
CoreRows == {
    BASE_ROW,
    [BASE_ROW EXCEPT ![1] = PyStr("Limited")],
    [BASE_ROW EXCEPT ![1] = PyStr("G Germany")],
    [BASE_ROW EXCEPT ![1] = PyStr("Manufacturer")],
    [[BASE_ROW EXCEPT ![2] = PyStr("")] EXCEPT ![3] = PyStr("")],
    [BASE_ROW EXCEPT ![5] = PyStr("150%")],
    Cells(<<"G", "Germany">>),
    Cells(<<"G Germany", "x">>)}

RECURSIVE SeqsUpTo(_, _)
SeqsUpTo(S, n) ==
    IF n = 0 THEN {<<>>}
    ELSE LET T == SeqsUpTo(S, n - 1) IN T \cup {Append(t, x) : t \in T, x \in S}

Tables == {<<r>> : r \in RowPool} \cup SeqsUpTo(CoreRows, MaxRows)

YEARS == {2023, 2026}

\* all strings over the alphabet A of at most n characters
RECURSIVE StringsUpTo(_, _)
StringsUpTo(A, n) ==
    IF n = 0 THEN {""}
    ELSE LET T == StringsUpTo(A, n - 1) IN T \cup {t \o c : t \in T, c \in A}

CellAlphabet == {"1", "5", "0", "%", "G", "g", " ", "\n", "-"}
CodeAlphabet == {"G", "g", "j"}

\* the cells "N%C": N in 0..100 in decimal, C a code of 1 to 3 letters
PercentCodeCells ==
    {str_int(n) \o "%" \o c : n \in 0..100, c \in StringsUpTo(CodeAlphabet, 3) \ {""}}

\* arguments of a single call of a cell parser
CellArgs ==
    {PyStr(s) : s \in StringsUpTo(CellAlphabet, MaxCellLen) \cup PercentCodeCells}
    \cup {None, PyInt(0), PyInt(75)}

\* s.lower() and s.swapcase(), used to write a name in another letter case
RECURSIVE lower(_)
lower(s) ==
    IF s = "" THEN ""
    ELSE (IF IsUpper(Ch(s, 1)) THEN ToLower[Ch(s, 1)] ELSE Ch(s, 1)) \o lower(From(s, 2))

RECURSIVE swapcase(_)
swapcase(s) ==
    IF s = "" THEN ""
    ELSE LET c == Ch(s, 1)
         IN  (IF IsUpper(c) THEN ToLower[c] ELSE IF IsLower(c) THEN ToUpper[c] ELSE c)
             \o swapcase(From(s, 2))

CaseVariants(s) == {s, upper(s), lower(s), title(s), swapcase(title(s))}

\* the values of COUNTRY_MAPPING: the canonical country names
CountryNames == {COUNTRY_MAPPING[i][2] : i \in 1..Len(COUNTRY_MAPPING)}

\* cells of the source columns as the reports write them
CountryTokens == {
    "Cassino Italy", "Detroit MI USA", "Seoul South Korea", "G (AWD)", "US (2.0L)",
    "Leipzig", "M, US", "K, J", "G, H", "US, M", "narnia", "ZZ", "zz", "J\nUS",
    "", "  ", "(AWD)", "Indiana", "Toyota City Japan"}

\* arguments of a single call of normalize_country
CountryArgs ==
    {PyStr(v) : v \in UNION {CaseVariants(n) : n \in CountryNames \cup COUNTRY_KEYS}}
    \cup {PyStr(t) : t \in CountryTokens}
    \cup {None, PyInt(2023)}

\* the variants and the canonical labels of MANUFACTURER_NORMALIZATION
Variants == {MANUFACTURER_NORMALIZATION[i][1] : i \in 1..Len(MANUFACTURER_NORMALIZATION)}
Labels == {MANUFACTURER_NORMALIZATION[i][2] : i \in 1..Len(MANUFACTURER_NORMALIZATION)}

\* arguments of a single call of normalize_manufacturer: the variants, names
\* that begin with a variant, variants cut short or in another letter case,
\* the labels, names of no variant
ManufacturerArgs ==
    {PyStr(v) : v \in Variants \cup Labels}
    \cup {PyStr(v \o t) : v \in Variants, t \in {" X5", "x", " ", ", LLC"}}
    \cup {PyStr(SubSeq(v, 1, Len(v) - 1)) : v \in Variants}
    \cup {PyStr(lower(v)) : v \in Variants}
    \cup {PyStr(" " \o v) : v \in Variants}
    \cup {PyStr(n) : n \in {"Subaru Subaru Outback", "Subaru Subaru", "Subaru", "Subaru Outback",
                            "Tesla Inc. Tesla", "Tesla Inc", "Tesla Model 3", "Toyota",
                            "BMW AG", "Ford Motor Company", "F", "Volvo", ""}}
    \cup {None}

\* arguments of a single call of clean_manufacturer: first cells of rows, with
\* and without drivetrain tokens, percentages and body-style abbreviations
CleanManufacturerArgs ==
    {Cells(<<c>>)[1] : c \in ManufacturerCells}
    \cup {PyStr(c) : c \in {
            "Volvo XC90 AWD", "BMW AG AWD", "X5 AWD", "A4 FWD 50%", "XC90 Aut", "PC Truck",
            "Toyota PC", "Toyota PC 4dr", "Acme Truck", "Kia 30%", "Honda Motor Co., Ltd. 5%",
            "5%", "Toyota Camry 50%", "Ford Motor Company Truck", "Toyota", "Volvo",
            "Toyota Camry RWD", " 50%", "Kia Motors MPV", "m3 AWD", "Truck\nToyota"}}
    \cup {PyStr(k \o t) : k \in {"Audi", "BMW AG", "Toyota", "Tesla Inc.", "Rivian"},
                          t \in {" Q5 AWD", " X 40%", " MPV", " Sedan"}}
    \cup {PyInt(5)}

\* the manufacturers process_data passes as context
Contexts == {"", "Toyota", "Volvo"}

(***************************************************************************)
(* The run parse_pdf -> process_data                                       *)
(***************************************************************************)
DataFrame(entries) == <<"DataFrame", entries>>
IsDataFrame(v) == v[1] = "DataFrame"
Records(v) == v[2]

Init ==
    /\ pc = "parse_pdf"
    /\ pdf_rows \in Tables
    /\ year \in YEARS
    /\ raw_data = <<>>
    /\ idx = 0
    /\ processed = <<>>
    /\ taken = <<>>
    /\ df = None
    /\ callee = ""
    /\ arg = None
    /\ ctx = ""
    /\ ret = None
    /\ prev = None
    /\ year_i = 0
    /\ files = {}
    /\ failed_downloads = <<>>
    /\ outcomes = <<>>
    /\ all_raw_data = <<>>
    /\ csv = <<>>

\* main, lines 697-717: the report is parsed; process_data runs when rows were extracted
ParsePdf ==
    /\ pc = "parse_pdf"
    /\ raw_data' = parse_pdf(pdf_rows, year)
    /\ pc' = IF raw_data' # <<>> THEN "process_data" ELSE "done"
    /\ idx' = 1
    /\ UNCHANGED <<pdf_rows, year, processed, taken, df, callee, arg, ctx, ret, prev, mainVars>>

\* the for loop with break in the place of continue: a row that yields no
\* entry ends the loop
ProcessRow_break ==
    /\ pc = "process_data"
    /\ idx <= Len(raw_data)
    /\ LET out == process_row(raw_data[idx])
       IN  /\ processed' = processed \o out.entries
           /\ taken' = Append(taken, out.at)
           /\ idx' = IF out.entries = <<>> THEN Len(raw_data) + 1 ELSE idx + 1
    /\ UNCHANGED <<pc, pdf_rows, year, raw_data, df, callee, arg, ctx, ret, prev, mainVars>>

\* process_data: one iteration of the for loop
ProcessRow ==
    /\ pc = "process_data"
    /\ idx <= Len(raw_data)
    /\ LET out == process_row(raw_data[idx])
       IN  /\ processed' = processed \o out.entries
           /\ taken' = Append(taken, out.at)
    /\ idx' = idx + 1
    /\ UNCHANGED <<pc, pdf_rows, year, raw_data, df, callee, arg, ctx, ret, prev, mainVars>>

\* process_data: the loop is over, the DataFrame is returned
Return ==
    /\ pc = "process_data"
    /\ idx > Len(raw_data)
    /\ df' = DataFrame(processed)
    /\ pc' = "done"
    /\ UNCHANGED <<pdf_rows, year, raw_data, idx, processed, taken, callee, arg, ctx, ret, prev, mainVars>>

Next == ParsePdf \/ ProcessRow \/ Return

Spec == Init /\ [][Next]_vars

(***************************************************************************)
(* A single call of a cell parser                                          *)
(***************************************************************************)
InitCall ==
    /\ pc = "call"
    /\ \/ /\ callee \in {"parse_country_percentage", "parse_us_canada_percentage"}
          /\ arg \in CellArgs
          /\ ctx = ""
       \/ /\ callee = "normalize_country"
          /\ arg \in CountryArgs
          /\ ctx \in Contexts
       \/ /\ callee = "normalize_manufacturer"
          /\ arg \in ManufacturerArgs
          /\ ctx = ""
       \/ /\ callee = "clean_manufacturer"
          /\ arg \in CleanManufacturerArgs
          /\ ctx = ""
    /\ ret = None
    /\ prev = None
    /\ pdf_rows = <<>>
    /\ year = 0
    /\ raw_data = <<>>
    /\ idx = 0
    /\ processed = <<>>
    /\ taken = <<>>
    /\ df = None
    /\ year_i = 0
    /\ files = {}
    /\ failed_downloads = <<>>
    /\ outcomes = <<>>
    /\ all_raw_data = <<>>
    /\ csv = <<>>

Call_parse_country_percentage ==
    /\ pc = "call"
    /\ callee = "parse_country_percentage"
    /\ ret' = parse_country_percentage(arg)
    /\ pc' = "returned"
    /\ UNCHANGED <<pdf_rows, year, raw_data, idx, processed, taken, df, callee, arg, ctx, prev, mainVars>>

Call_parse_us_canada_percentage ==
    /\ pc = "call"
    /\ callee = "parse_us_canada_percentage"
    /\ ret' = parse_us_canada_percentage(arg)
    /\ pc' = "returned"
    /\ UNCHANGED <<pdf_rows, year, raw_data, idx, processed, taken, df, callee, arg, ctx, prev, mainVars>>

Call_normalize_country ==
    /\ pc = "call"
    /\ callee = "normalize_country"
    /\ ret' = normalize_country(arg, ctx)
    /\ pc' = "returned"
    /\ UNCHANGED <<pdf_rows, year, raw_data, idx, processed, taken, df, callee, arg, ctx, prev, mainVars>>

Call_normalize_manufacturer ==
    /\ pc = "call"
    /\ callee = "normalize_manufacturer"
    /\ ret' = normalize_manufacturer(arg)
    /\ pc' = "returned"
    /\ UNCHANGED <<pdf_rows, year, raw_data, idx, processed, taken, df, callee, arg, ctx, prev, mainVars>>

Call_clean_manufacturer ==
    /\ pc = "call"
    /\ callee = "clean_manufacturer"
    /\ ret' = clean_manufacturer(arg)
    /\ pc' = "returned"
    /\ UNCHANGED <<pdf_rows, year, raw_data, idx, processed, taken, df, callee, arg, ctx, prev, mainVars>>

\* normalize_country is called a second time with the same code, after the
\* first call has returned, by a caller with any context
Recall_normalize_country ==
    /\ pc = "returned"
    /\ callee = "normalize_country"
    /\ prev' = PyTuple(PyStr(ctx), ret)
    /\ ctx' \in Contexts
    /\ ret' = normalize_country(arg, ctx')
    /\ pc' = "returned_again"
    /\ UNCHANGED <<pdf_rows, year, raw_data, idx, processed, taken, df, callee, arg, mainVars>>

NextCall ==
    \/ Call_clean_manufacturer
    \/ Call_normalize_manufacturer
    \/ Call_parse_country_percentage
    \/ Call_parse_us_canada_percentage
    \/ Call_normalize_country
    \/ Recall_normalize_country

SpecCall == InitCall /\ [][NextCall]_vars

(***************************************************************************)
(* main: the loop over YEAR_URLS, then process_data and df.to_csv          *)
(***************************************************************************)
\* the keys of YEAR_URLS, in the order of the dict
YEAR_URLS == <<2020, 2021, 2022, 2023, 2024, 2025, 2026>>

\* the run handles the first MaxYears entries of YEAR_URLS
MaxYears == 3
MainYears == SubSeq(YEAR_URLS, 1, IF MaxYears < Len(YEAR_URLS) THEN MaxYears ELSE Len(YEAR_URLS))

\* the branch an iteration of the loop over the years takes
CACHED == "cached@683"
DOWNLOADED == "downloaded@689"
DOWNLOAD_FAILED == "failed@691"
LINK_NOT_FOUND == "failed@694"

\* the tables a report can hold: none, one data row, a data row and a row
\* that process_data skips
MainTables == {
    <<>>,
    <<BASE_ROW>>,
    <<[BASE_ROW EXCEPT ![1] = PyStr("G Germany")], [BASE_ROW EXCEPT ![2] = PyStr("Camry")]>>}

InitMain ==
    /\ pc = "main"
    /\ year_i = 1
    /\ files \in SUBSET {MainYears[i] : i \in 1..Len(MainYears)}
    /\ failed_downloads = <<>>
    /\ outcomes = <<>>
    /\ all_raw_data = <<>>
    /\ csv = <<>>
    /\ pdf_rows = <<>>
    /\ year = 0
    /\ raw_data = <<>>
    /\ idx = 0
    /\ processed = <<>>
    /\ taken = <<>>
    /\ df = None
    /\ callee = ""
    /\ arg = None
    /\ ctx = ""
    /\ ret = None
    /\ prev = None

\* lines 697-699: the report of year y is parsed when its file exists then
ParseIfExists(y, files_then) ==
    IF y \in files_then
    THEN \E rows \in MainTables :
             /\ pdf_rows' = rows
             /\ all_raw_data' = all_raw_data \o parse_pdf(rows, y)
    ELSE UNCHANGED <<pdf_rows, all_raw_data>>

\* one iteration of the loop over YEAR_URLS that takes the branch outcome
\* and leaves the files and failed_downloads as given
HandleYear(outcome, files_after, failed_after) ==
    /\ pc = "main"
    /\ year_i <= Len(MainYears)
    /\ year' = MainYears[year_i]
    /\ files' = files_after
    /\ failed_downloads' = failed_after
    /\ outcomes' = Append(outcomes, <<MainYears[year_i], outcome>>)
    /\ ParseIfExists(MainYears[year_i], files_after)
    /\ year_i' = year_i + 1
    /\ UNCHANGED <<pc, raw_data, idx, processed, taken, df, callee, arg, ctx, ret, csv, prev>>

\* line 682: the file of the year is in the data directory
YearCached ==
    /\ year_i <= Len(MainYears)
    /\ MainYears[year_i] \in files
    /\ HandleYear(CACHED, files, failed_downloads)

\* lines 686-689: the link is found and download_pdf saves the file
YearDownloaded ==
    /\ year_i <= Len(MainYears)
    /\ MainYears[year_i] \notin files
    /\ HandleYear(DOWNLOADED, files \cup {MainYears[year_i]}, failed_downloads)

\* a failed download that ends the run
YearDownloadFailed_abort ==
    /\ pc = "main"
    /\ year_i <= Len(MainYears)
    /\ MainYears[year_i] \notin files
    /\ failed_downloads' = Append(failed_downloads, <<MainYears[year_i], "pdf_url">>)
    /\ pc' = "exit"
    /\ UNCHANGED <<pdf_rows, year, raw_data, idx, processed, taken, df, callee, arg, ctx, ret,
                   year_i, files, outcomes, all_raw_data, csv, prev>>

\* lines 689-691: the link is found and download_pdf returns False
YearDownloadFailed ==
    /\ year_i <= Len(MainYears)
    /\ MainYears[year_i] \notin files
    /\ HandleYear(DOWNLOAD_FAILED, files,
                  Append(failed_downloads, <<MainYears[year_i], "pdf_url">>))

\* lines 686, 692-694: get_pdf_url_from_landing_page returns None
YearLinkNotFound ==
    /\ year_i <= Len(MainYears)
    /\ MainYears[year_i] \notin files
    /\ HandleYear(LINK_NOT_FOUND, files,
                  Append(failed_downloads, <<MainYears[year_i], "landing_url">>))

\* lines 711-712: the loop is over and rows were gathered: process_data is called
CallProcessData ==
    /\ pc = "main"
    /\ year_i > Len(MainYears)
    /\ all_raw_data # <<>>
    /\ raw_data' = all_raw_data
    /\ idx' = 1
    /\ pc' = "process_data"
    /\ UNCHANGED <<pdf_rows, year, processed, taken, df, callee, arg, ctx, ret, prev, mainVars>>

\* lines 716-717: the loop is over and no row was gathered
NoData ==
    /\ pc = "main"
    /\ year_i > Len(MainYears)
    /\ all_raw_data = <<>>
    /\ pc' = "exit"
    /\ UNCHANGED <<pdf_rows, year, raw_data, idx, processed, taken, df, callee, arg, ctx, ret,
                   prev, mainVars>>

\* line 713: process_data has returned, the DataFrame is written
ToCsv ==
    /\ pc = "done"
    /\ IsDataFrame(df)
    /\ csv' = Append(csv, Records(df))
    /\ pc' = "exit"
    /\ UNCHANGED <<pdf_rows, year, raw_data, idx, processed, taken, df, callee, arg, ctx, ret,
                   year_i, files, failed_downloads, outcomes, all_raw_data, prev>>

NextMain ==
    \/ YearCached
    \/ YearDownloaded
    \/ YearDownloadFailed
    \/ YearLinkNotFound
    \/ CallProcessData
    \/ NoData
    \/ ProcessRow
    \/ Return
    \/ ToCsv

\* one iteration of the loop over YEAR_URLS
YearStep == YearCached \/ YearDownloaded \/ YearDownloadFailed \/ YearLinkNotFound

\* main is a sequential program and the body of its loop over the years has
\* no loop of its own but parse_pdf's over the rows of a table: an iteration
\* that can be taken is taken (every request and file operation returns)
SpecMain == InitMain /\ [][NextMain]_vars /\ WF_vars(YearStep)

(***************************************************************************)
(* Properties                                                              *)
(***************************************************************************)

\* the rows of raw_data the loop has handled so far
Handled == 1..Len(taken)

PercentFields(e) == {e.Pct_US_Canada, e.Primary_Pct, e.Secondary_Pct}

TOYOTA_ROW == Append(BASE_ROW, PyInt(2023))

\* C1: process_data on the single row ["Toyota", "Corolla", "Corolla", "PC",
\* "75%", "15%G", "10%J", "G", "", "J", "", "United States", "", 2023] returns
\* exactly one record, with manufacturer "Toyota", car line "Corolla",
\* US/Canada percent 75, primary country "Germany" at 15, secondary country
\* "Japan" at 10, engine source "Germany", transmission source "Japan" and
\* assembly country "United States".
C1_ToyotaRecord ==
    (pc = "done" /\ raw_data = <<TOYOTA_ROW>>) =>
        /\ IsDataFrame(df)
        /\ Len(Records(df)) = 1
        /\ LET e == Records(df)[1]
           IN  /\ e.Manufacturer = PyStr("Toyota")
               /\ e.Car_Line = PyStr("Corolla")
               /\ e.Pct_US_Canada = PyInt(75)
               /\ e.Primary_Country = PyStr("Germany")
               /\ e.Primary_Pct = PyInt(15)
               /\ e.Secondary_Country = PyStr("Japan")
               /\ e.Secondary_Pct = PyInt(10)
               /\ e.Engine_Source = PyStr("Germany")
               /\ e.Transmission_Source = PyStr("Japan")
               /\ e.Assembly_Country = PyStr("United States")
               /\ e.Year = PyInt(2023)

C1_Witness ==
    pc = "done" /\ raw_data = <<TOYOTA_ROW>> /\ IsDataFrame(df) /\ Len(Records(df)) = 1

\* the drop tally process_data exposes, as <<reason, count>> pairs: the
\* function counts nothing and returns the DataFrame alone
drop_tally == <<>>

RECURSIVE SumCounts(_)
SumCounts(tally) == IF Len(tally) = 0 THEN 0 ELSE Head(tally)[2] + SumCounts(Tail(tally))

\* the rows that pass the short-row and legend checks (parse_pdf has removed
\* the empty and header rows): the data rows
DataRows == {i \in Handled : taken[i] \in {CONTINUE_MANUFACTURER, APPEND}}

\* C2: when the run is over, the number of output records plus the sum of the
\* drop-tally counts equals the number of rows classified as data rows.
C2_RecordsPlusDropsEqualDataRows ==
    (pc = "done" /\ IsDataFrame(df)) =>
        Len(Records(df)) + SumCounts(drop_tally) = Cardinality(DataRows)

\* C3: in every record each of the three percentage fields is an integer in
\* 0..100.
C3_PercentagesWithinRange ==
    \A i \in 1..Len(processed) :
        \A v \in PercentFields(processed[i]) : IsInt(v) /\ Val(v) \in 0..100

\* C4: every record has a manufacturer that is a non-empty string, and a row
\* for whose first cell clean_manufacturer returns None (or "") yields no
\* record.
C4_ManufacturerNeverBlank ==
    /\ \A i \in 1..Len(processed) :
           IsStr(processed[i].Manufacturer) /\ Val(processed[i].Manufacturer) # ""
    /\ \A i \in Handled :
           ~Truthy(clean_manufacturer(raw_data[i][1])) => taken[i] # APPEND
    /\ Len(processed) = Cardinality({i \in Handled : taken[i] = APPEND})

C4_Witness ==
    /\ \E i \in Handled :
           /\ taken[i] = CONTINUE_MANUFACTURER
           /\ IsNone(clean_manufacturer(raw_data[i][1]))
    /\ \E i \in Handled : taken[i] = APPEND
    /\ Len(processed) >= 1

\* C5: every record has a car line that is a non-empty string.
C5_CarLineNeverBlank ==
    \A i \in 1..Len(processed) :
        IsStr(processed[i].Car_Line) /\ Val(processed[i].Car_Line) # ""

\* the first cell of the row is one of the known country codes followed by
\* whitespace
HasLegendPrefix(row) ==
    /\ IsStr(row[1])
    /\ \E i \in 1..Len(LEGEND_PATTERNS) :
           \E w \in Whitespace : startswith(Val(row[1]), LEGEND_PATTERNS[i] \o w)

\* C6 as stated: every row whose first cell matches a legend-prefix pattern is
\* skipped as a legend row, whatever its other cells.
C6_LegendPrefixAlwaysLegend ==
    \A i \in Handled : HasLegendPrefix(raw_data[i]) => taken[i] = CONTINUE_LEGEND

\* C6 as amended: a row whose first cell matches a legend-prefix pattern never
\* yields a record, and it is skipped as a legend row when it has at least 8
\* cells (the year included); with fewer cells it is skipped as a short row.
C6_LegendPrefixNoRecord ==
    \A i \in Handled :
        HasLegendPrefix(raw_data[i]) =>
            /\ taken[i] # APPEND
            /\ taken[i] = IF Len(raw_data[i]) >= MIN_ROW_LEN
                          THEN CONTINUE_LEGEND ELSE CONTINUE_SHORT

C6_Witness ==
    /\ \E i \in Handled :
           /\ HasLegendPrefix(raw_data[i])
           /\ Len(raw_data[i]) >= MIN_ROW_LEN
           /\ taken[i] = CONTINUE_LEGEND
    /\ \E i \in Handled :
           /\ HasLegendPrefix(raw_data[i])
           /\ Len(raw_data[i]) < MIN_ROW_LEN
           /\ taken[i] = CONTINUE_SHORT

G_GERMANY_ROW == Cells(<<"G", "Germany">>)

\* C7 as stated: the row ["G", "Germany"] is skipped as a legend row and
\* yields no record.
C7_GermanyRowIsLegend ==
    (pc = "done" /\ pdf_rows = <<G_GERMANY_ROW>>) =>
        taken = <<CONTINUE_LEGEND>> /\ processed = <<>>

\* C7 as amended: the row ["G", "Germany"] yields no record; it is skipped as
\* a row with fewer than 8 cells, and its first cell "G", with no whitespace
\* after the code, matches no legend-prefix pattern.
C7_GermanyRowIsShort ==
    (pc = "done" /\ pdf_rows = <<G_GERMANY_ROW>>) =>
        /\ Len(raw_data) = 1
        /\ taken = <<CONTINUE_SHORT>>
        /\ processed = <<>>
        /\ IsDataFrame(df) /\ Records(df) = <<>>
        /\ ~HasLegendPrefix(raw_data[1])

C7_Witness ==
    pc = "done" /\ pdf_rows = <<G_GERMANY_ROW>> /\ taken = <<CONTINUE_SHORT>>

\* <<N, C, "N%C">> for N in 0..100 and C a code of 1 to 3 letters
PercentCodeTriples ==
    {<<n, c, str_int(n) \o "%" \o c>> :
        n \in 0..100, c \in StringsUpTo(CodeAlphabet, 3) \ {""}}

Returned(f) == pc = "returned" /\ callee = f

\* C8 as stated: for a cell "N%C", parse_country_percentage returns (N, C),
\* the code as written in the cell.
C8_PercentCodeAsWritten ==
    (Returned("parse_country_percentage") /\ IsStr(arg)) =>
        \A t \in PercentCodeTriples :
            Val(arg) = t[3] => ret = PyTuple(PyInt(t[1]), PyStr(t[2]))

\* C8 as amended: for a cell "N%C", parse_country_percentage returns
\* (N, C.upper()): the code in capitals, which is the code as written when it
\* is written in capitals.
C8_PercentCodeUpper ==
    (Returned("parse_country_percentage") /\ IsStr(arg)) =>
        \A t \in PercentCodeTriples :
            Val(arg) = t[3] => ret = PyTuple(PyInt(t[1]), PyStr(upper(t[2])))

C8_Witness ==
    /\ Returned("parse_country_percentage")
    /\ arg = PyStr("15%gj")
    /\ ret = PyTuple(PyInt(15), PyStr("GJ"))

\* the first line of the stripped cell, as the parser reads it
ReadLine(v) == strip(first_line(strip(Val(v))))
\* the cell begins with an integer
HasLeadingInteger(v) == IsStr(v) /\ Run(ReadLine(v), DigitSet) >= 1
LeadingInteger(v) == int(SubSeq(ReadLine(v), 1, Run(ReadLine(v), DigitSet)))
AfterInteger(v) == lstrip(From(ReadLine(v), Run(ReadLine(v), DigitSet) + 1))
\* the integer is followed, after optional whitespace, by a percent sign
HasPercentSign(v) == HasLeadingInteger(v) /\ startswith(AfterInteger(v), "%")
\* the letters after the percent sign and optional whitespace
TrailingCode(v) ==
    LET r == lstrip(From(AfterInteger(v), 2)) IN SubSeq(r, 1, Run(r, AlphaSet))

\* C9 as stated: the percent sign is optional; for every cell that begins with
\* an integer N the returned percent is N, and both outputs are None only when
\* the integer is absent.
C9_PercentSignOptional ==
    Returned("parse_country_percentage") =>
        /\ HasLeadingInteger(arg) => Fst(ret) = PyInt(LeadingInteger(arg))
        /\ ret = PyTuple(None, None) => ~HasLeadingInteger(arg)

\* C9 as amended: the percent sign is required; for every cell that begins
\* with an integer N followed, after optional whitespace, by a percent sign,
\* the returned percent is N and the country token is the letters after the
\* sign in capitals, or None when there are none; both outputs are None
\* exactly when the integer or the percent sign after it is absent.
C9_PercentSignRequired ==
    Returned("parse_country_percentage") =>
        /\ HasPercentSign(arg) =>
               /\ Fst(ret) = PyInt(LeadingInteger(arg))
               /\ Snd(ret) = IF TrailingCode(arg) = "" THEN None
                             ELSE PyStr(upper(TrailingCode(arg)))
        /\ ~HasPercentSign(arg) <=> ret = PyTuple(None, None)

C9_Witness ==
    /\ Returned("parse_country_percentage")
    /\ arg = PyStr("5%g")
    /\ HasPercentSign(arg)
    /\ ret = PyTuple(PyInt(5), PyStr("G"))

\* C10: for every cell with no leading integer (an empty or whitespace-only
\* cell and a cell that is not a string included) parse_us_canada_percentage
\* returns 0; whatever the cell, it returns an integer >= 0, never None.
C10_NoIntegerGivesZero ==
    Returned("parse_us_canada_percentage") =>
        /\ IsInt(ret)
        /\ Val(ret) >= 0
        /\ (~IsStr(arg) \/ Run(strip(Val(arg)), DigitSet) = 0) => ret = PyInt(0)

C10_Witness ==
    /\ Returned("parse_us_canada_percentage")
    /\ arg = PyStr("%15")
    /\ ret = PyInt(0)
(***************************************************************************)
(* C11: for every canonical country name (a value of COUNTRY_MAPPING)      *)
(* written in any letter case, normalize_country returns the canonical     *)
(* spelling of the name, and normalize_country of that result is the       *)
(* result again.                                                           *)
(***************************************************************************)
IsCanonicalNameArg(a) == IsStr(a) /\ \E n \in CountryNames : upper(n) = upper(Val(a))

C11_CanonicalNameIdempotent ==
    (Returned("normalize_country") /\ IsCanonicalNameArg(arg))
        => /\ IsStr(ret)
           /\ Val(ret) \in CountryNames
           /\ upper(Val(ret)) = upper(Val(arg))
           /\ normalize_country(ret, ctx) = ret

C11_Witness ==
    /\ Returned("normalize_country")
    /\ arg = PyStr("sOUTH kOREA")
    /\ ret = PyStr("South Korea")

(***************************************************************************)
(* C12                                                                     *)
(***************************************************************************)
\* the return statements of the trailing-word strategy (lines 327-336) and of
\* the search for a known full country name (lines 352-354)
TRAILING_WORD_RETURNS == {"return@331", "return@336"}
KNOWN_COUNTRY_RETURN == "return@354"

CanonicalCountries ==
    CountryNames
    \cup {title(known_countries[i]) : i \in 1..Len(known_countries)}
    \cup {title(n) : n \in TWO_WORD_COUNTRIES}

\* the row of raw_data that the k-th record was built from
RowOfRecord(k) ==
    raw_data[CHOOSE i \in Handled :
                 /\ taken[i] = APPEND
                 /\ Cardinality({j \in 1..i : taken[j] = APPEND}) = k]

\* the raw cells of the three source columns (lines 639-646)
RawEngine(row) == IF Len(row) > 7 THEN At(row, 7) ELSE PyStr("")
RawTransmission(row) == IF Len(row) > 9 THEN At(row, 9) ELSE PyStr("")
RawAssembly(row) == IF Len(row) > 3 THEN FromEnd(row, 3) ELSE PyStr("")

CanonicalOrRaw(v, raw) == IsStr(v) /\ (Val(v) \in CanonicalCountries \/ v = raw)
CanonicalOrEmpty(v) == IsStr(v) /\ (Val(v) \in CanonicalCountries \/ Val(v) = "")

\* C13: in every record, engine source, transmission source and assembly
\* country are strings that are a canonical country name or the raw text of
\* their cell, and primary and secondary country are strings that are a
\* canonical country name or empty; none of the five is None.
C13_CountryFieldsCanonicalOrRaw ==
    \A k \in 1..Len(processed) :
        LET e == processed[k]
            row == RowOfRecord(k)
        IN  /\ CanonicalOrRaw(e.Engine_Source, RawEngine(row))
            /\ CanonicalOrRaw(e.Transmission_Source, RawTransmission(row))
            /\ CanonicalOrRaw(e.Assembly_Country, RawAssembly(row))
            /\ CanonicalOrEmpty(e.Primary_Country)
            /\ CanonicalOrEmpty(e.Secondary_Country)

\* the part of C13 that holds: none of the five fields is None
C13_CountryFieldsNeverNone ==
    \A k \in 1..Len(processed) :
        LET e == processed[k]
        IN  \A v \in {e.Engine_Source, e.Transmission_Source, e.Assembly_Country,
                      e.Primary_Country, e.Secondary_Country} : ~IsNone(v)

(***************************************************************************)
(* C14                                                                     *)
(***************************************************************************)
\* what process_data returns on the list of the single row
Alone(row) == process_row(row).entries

\* the records of the rows, each processed alone, in the order of the rows
RECURSIVE EachAlone(_)
EachAlone(rows) ==
    IF rows = <<>> THEN <<>> ELSE Alone(Head(rows)) \o EachAlone(Tail(rows))

\* C14: per-row outcomes are independent.  At every point of the loop the
\* entries appended so far are, in input order, the records the rows handled
\* so far yield when processed alone, zero or one per row; the loop reaches
\* its end on every sequence of rows, and the DataFrame returned holds
\* exactly the records of all rows, each processed alone.
C14_RowsIndependent ==
    /\ pc = "process_data" =>
           /\ Len(taken) = idx - 1
           /\ processed = EachAlone(SubSeq(raw_data, 1, Len(taken)))
    /\ \A i \in 1..Len(raw_data) : Len(Alone(raw_data[i])) <= 1
    /\ (pc = "done" /\ IsDataFrame(df)) =>
           /\ Len(taken) = Len(raw_data)
           /\ Records(df) = EachAlone(raw_data)

C14_Witness ==
    /\ pc = "done"
    /\ IsDataFrame(df)
    /\ Len(raw_data) = 3
    /\ taken[1] = APPEND
    /\ taken[2] \in {CONTINUE_SHORT, CONTINUE_LEGEND, CONTINUE_MANUFACTURER}
    /\ taken[3] = APPEND
    /\ Records(df) = Alone(raw_data[1]) \o Alone(raw_data[3])
    /\ raw_data[1] # raw_data[3]

(***************************************************************************)
(* C15                                                                     *)
(***************************************************************************)
FAILED == {DOWNLOAD_FAILED, LINK_NOT_FOUND}

\* the years handled so far whose report was not retrieved
FailedYears == {outcomes[k][1] : k \in {j \in 1..Len(outcomes) : outcomes[j][2] \in FAILED}}

\* the year parse_pdf appended to a row
YearOfRow(row) == Val(row[Len(row)])

C15_Inv ==
    \* the years are handled in turn, whatever the outcomes
    /\ \A k \in 1..Len(outcomes) : outcomes[k][1] = MainYears[k]
    /\ pc = "main" => Len(outcomes) = year_i - 1
    /\ pc # "main" => Len(outcomes) = Len(MainYears)
    \* a failed year is listed in failed_downloads and contributes no row
    /\ FailedYears = {failed_downloads[k][1] : k \in 1..Len(failed_downloads)}
    /\ \A i \in 1..Len(all_raw_data) : YearOfRow(all_raw_data[i]) \notin FailedYears
    \* the table is written at most once, after all years and all rows, and whole
    /\ Len(csv) <= 1
    /\ csv # <<>> =>
           /\ pc = "exit"
           /\ Len(outcomes) = Len(MainYears)
           /\ raw_data = all_raw_data
           /\ Len(taken) = Len(all_raw_data)
           /\ csv[1] = EachAlone(all_raw_data)

\* C15: in a run of main, under any combination of per-year outcomes
\* (cached, downloaded, link not found, download failed), every year is
\* handled in turn and the loop over the years reaches its end, a failed
\* year contributes no row and does not end the run, and the table is
\* written at most once, only after all years were handled and all gathered
\* rows processed.
C15_DriverRun == []C15_Inv /\ <>(Len(outcomes) = Len(MainYears))

C15_Witness ==
    /\ pc = "exit"
    /\ Len(csv) = 1
    /\ Len(csv[1]) >= 2
    /\ \E k \in 1..Len(outcomes) : outcomes[k][2] = DOWNLOAD_FAILED
    /\ \E k \in 1..Len(outcomes) : outcomes[k][2] = CACHED
    /\ \E k \in 1..Len(outcomes) : outcomes[k][2] = DOWNLOADED

(***************************************************************************)
(* C16                                                                     *)
(***************************************************************************)
\* the entries of MANUFACTURER_NORMALIZATION whose variant the name m equals
\* or begins with
MatchedEntries(m) ==
    {i \in 1..Len(MANUFACTURER_NORMALIZATION) : startswith(m, MANUFACTURER_NORMALIZATION[i][1])}

\* the two fixups for a name followed by a copy of itself
IsDuplication(m) == startswith(m, "Subaru Subaru") \/ startswith(m, "Tesla Inc. Tesla")

\* C16: normalize_manufacturer maps a cleaned name that equals or begins with
\* a variant of MANUFACTURER_NORMALIZATION to the canonical label of that
\* variant, whichever matching entry comes first in the table, and returns a
\* name that matches no variant and no duplication fixup unchanged.
C16_VariantToCanonical ==
    (Returned("normalize_manufacturer") /\ Truthy(arg))
        => /\ \A i \in MatchedEntries(Val(arg)) : ret = PyStr(MANUFACTURER_NORMALIZATION[i][2])
           /\ (MatchedEntries(Val(arg)) = {} /\ ~IsDuplication(Val(arg))) => ret = arg

C16_Witness ==
    /\ Returned("normalize_manufacturer")
    /\ arg = PyStr("Hyundai Motor Company X5")
    /\ Cardinality(MatchedEntries(Val(arg))) = 2
    /\ ret = PyStr("Hyundai")

(***************************************************************************)
(* C17                                                                     *)
(***************************************************************************)
\* the token is a key of COUNTRY_MAPPING in some letter case, nothing else
IsKeyArg(a) == IsStr(a) /\ upper(Val(a)) \in COUNTRY_KEYS

\* C17: for every token that is exactly a key of COUNTRY_MAPPING, in any
\* letter case, normalize_country returns the country the table maps the key
\* to.
C17_KeyGivesTableCountry ==
    (Returned("normalize_country") /\ IsKeyArg(arg))
        => ret = PyStr(COUNTRY_OF(upper(Val(arg))))

\* the keys that are also a US state or a Canadian province
ShadowedKeys == COUNTRY_KEYS \cap (US_STATES \cup CA_PROVINCES)

\* the part of C17 that holds: every key that is no US state and no
\* Canadian province gives the country of the table
C17_UnshadowedKeyGivesTableCountry ==
    (Returned("normalize_country") /\ IsKeyArg(arg) /\ upper(Val(arg)) \notin ShadowedKeys)
        => ret = PyStr(COUNTRY_OF(upper(Val(arg))))

(***************************************************************************)
(* C18                                                                     *)
(***************************************************************************)
\* the first line of the cell
FirstLine(a) == strip(first_line(Val(a)))

\* the line looks like a vehicle descriptor: it contains a drivetrain token,
\* a percentage or a body-style abbreviation
DRIVETRAIN_TOKENS == {"AWD", "FWD", "RWD", "Aut"}
HasDrivetrainToken(s) == \E t \in DRIVETRAIN_TOKENS : contains(s, t)
HasDataPattern(s) ==
    \/ \E i \in 1..(Len(s) - 1) : Ch(s, i) \in DigitSet /\ Ch(s, i + 1) = "%"
    \/ contains(s, "MPV")
    \/ \E w \in Whitespace : contains(s, "PC" \o w)
    \/ contains(s, "Truck")
LooksLikeDescriptor(s) == HasDrivetrainToken(s) \/ HasDataPattern(s)

\* the known manufacturer names that are a prefix of the line
KnownPrefixes(s) ==
    {known_manufacturers[i] : i \in {j \in 1..Len(known_manufacturers) :
                                         startswith(s, known_manufacturers[j])}}

\* what C18 says of a descriptor line: a known manufacturer name that is a
\* prefix of it when there is one, otherwise its first word
Recovered(s, r) ==
    IF KnownPrefixes(s) # {} THEN IsStr(r) /\ Val(r) \in KnownPrefixes(s)
    ELSE r = PyStr(split(s)[1])

\* C18: for every cell whose first line looks like a vehicle descriptor,
\* clean_manufacturer returns the known manufacturer name that is a prefix of
\* the cell when there is one, and otherwise the first word of the cell.
C18_DescriptorRecovered ==
    (Returned("clean_manufacturer") /\ Truthy(arg) /\ IsStr(arg)
        /\ LooksLikeDescriptor(FirstLine(arg)))
        => Recovered(FirstLine(arg), ret)

\* the part of C18 that holds: a line with a percentage or a body-style
\* abbreviation that lines 465-474 do not reject is recovered in this way
C18_DataPatternRecovered ==
    (Returned("clean_manufacturer") /\ Truthy(arg) /\ IsStr(arg)
        /\ HasDataPattern(FirstLine(arg))
        /\ ~match_legend_entry(FirstLine(arg))
        /\ FirstLine(arg) \notin INVALID_MANUFACTURERS
        /\ ~match_model_pattern(FirstLine(arg)))
        => Recovered(FirstLine(arg), ret)

=============================================================================
